---- MODULE Spec2Model ----
(***************************************************************************)
(* Model of the binary search tree of ds/BST.py and ds/BSTNode.py, and of  *)
(* the knapsack functions of ands/algorithms/dp/zero_one_knapsack.py.      *)
(*                                                                         *)
(* Nodes live in an arena: a node is an identifier in 1..MaxNodes and its  *)
(* attributes key, parent, left, right are functions over the arena; the   *)
(* identifier 0 stands for Python's None.  The == and != of two nodes is   *)
(* object identity (BST.py:570-572), hence equality of identifiers.        *)
(*                                                                         *)
(* A heap h is the record [root, n, key, parent, left, right].  Every      *)
(* method is an operator from a heap to a result [h, ret, err]: the heap   *)
(* it leaves behind, the value it returns and the exception it raises      *)
(* ("none" when it returns).  Statements are applied in source order, each *)
(* one reading the heap left by the previous one.                          *)
(***************************************************************************)
EXTENDS Integers, Sequences, FiniteSets, TLC

MaxNodes == 3       \* nodes that can ever be created
MaxKey == 3         \* keys are 1..MaxKey
MaxDeficit == 1     \* size() falls at most this far below the number of nodes
MaxObjCalls == 2    \* calls followed from the first one that passes an outside node object
MaxMany == 2        \* longest list passed to insert_many

None == 0
NodeIds == 1..MaxNodes
Keys == 1..MaxKey

VARIABLES root, n, key, parent, left, right, alloc, hung, last, k, d, clean, objcalls,
          tw, ws, vs, out

vars == <<root, n, key, parent, left, right, alloc, hung, last, k, d, clean, objcalls,
          tw, ws, vs, out>>

Heap == [root |-> root, n |-> n, key |-> key,
         parent |-> parent, left |-> left, right |-> right]

Res(h, ret, err) == [h |-> h, ret |-> ret, err |-> err]

\* No knapsack function has been called: tw, ws and vs are its arguments and
\* out the function called last with what it returned or raised.
NoOutcome == [fn |-> "none", ret |-> None, err |-> "none"]

\* The number of cells of the arena of h: a walk that meets more nodes than
\* that is on a cycle.
Cells(h) == Cardinality(DOMAIN h.key)

\* An assignment: the rest of the method, Rest, reads the value v.
Bind(v, Rest(_)) == Rest(v)

(***************************************************************************)
(* BSTNode                                                                 *)
(***************************************************************************)

\* BSTNode(key): a new object with no links, stored in the next free cell.
BSTNode(h, x, kk) ==
    [h EXCEPT !.key[x] = kk, !.parent[x] = None, !.left[x] = None, !.right[x] = None]

\* True, or None (falsy) when the parent's left slot is empty or holds another
\* node.  Every call in BST.py is made with a parent.
is_left_child(h, c) ==
    /\ h.parent[c] # None
    /\ h.left[h.parent[c]] # None
    /\ h.left[h.parent[c]] = c

has_two_children(h, u) == h.left[u] # None /\ h.right[u] # None

\* The property sibling: None for a node without parent.
sibling(h, u) ==
    IF h.parent[u] # None
    THEN IF is_left_child(h, u) THEN h.right[h.parent[u]] ELSE h.left[h.parent[u]]
    ELSE None

grandparent(h, u) == IF h.parent[u] # None THEN h.parent[h.parent[u]] ELSE None

\* The property uncle, the branches in the order of the source.
uncle(h, u) ==
    Bind(grandparent(h, u), LAMBDA g :
    IF g = None THEN Res(h, None, "none")
    ELSE IF h.left[g] = None /\ h.parent[u] = h.right[g] THEN Res(h, h.left[g], "none")
    ELSE IF h.right[g] = None /\ h.parent[u] = h.left[g] THEN Res(h, h.right[g], "none")
    ELSE IF h.parent[u] = h.left[g] THEN Res(h, h.right[g], "none")
    ELSE IF h.parent[u] = h.right[g] THEN Res(h, h.left[g], "none")
    ELSE Res(h, None, "Exception"))

(***************************************************************************)
(* BST: construction, insertion                                            *)
(***************************************************************************)

_initialise(h, u) ==
    [h EXCEPT !.root = u, !.parent[u] = None, !.left[u] = None, !.right[u] = None,
              !.n = 1]

clear(h) == [h EXCEPT !.root = None, !.n = 0]

\* The while loop of tail_insert: the last node on the walk, or None when the
\* walk meets more nodes than there are, which it does only on a cycle, where
\* the loop never ends.
RECURSIVE tail_walk(_, _, _, _, _)
tail_walk(h, x, c, p, fuel) ==
    IF c = None THEN p
    ELSE IF fuel = 0 THEN None
    ELSE tail_walk(h, x,
                   IF h.key[x] < h.key[c] THEN h.left[c] ELSE h.right[c],
                   c, fuel - 1)

\* tail_insert attaching a node with the key of the last node on its left.
tail_insert_equal_on_left(h, x) ==
    IF h.root = None THEN Res(_initialise(h, x), None, "none")
    ELSE Bind(tail_walk(h, x, h.root, h.parent[h.root], Cells(h)), LAMBDA p :
         IF p = None THEN Res(h, None, "hang")
         ELSE IF h.key[x] <= h.key[p]
         THEN Res([h EXCEPT !.left[p] = x, !.parent[x] = p, !.n = @ + 1], None, "none")
         ELSE Res([h EXCEPT !.right[p] = x, !.parent[x] = p, !.n = @ + 1], None, "none"))

\* tail_insert attaching the node on the other side of the last node.
tail_insert_other_side(h, x) ==
    IF h.root = None THEN Res(_initialise(h, x), None, "none")
    ELSE Bind(tail_walk(h, x, h.root, h.parent[h.root], Cells(h)), LAMBDA p :
         IF p = None THEN Res(h, None, "hang")
         ELSE IF h.key[x] < h.key[p]
         THEN Res([h EXCEPT !.right[p] = x, !.parent[x] = p, !.n = @ + 1], None, "none")
         ELSE Res([h EXCEPT !.left[p] = x, !.parent[x] = p, !.n = @ + 1], None, "none"))

tail_insert(h, x) ==
    IF h.root = None THEN Res(_initialise(h, x), None, "none")
    ELSE Bind(tail_walk(h, x, h.root, h.parent[h.root], Cells(h)), LAMBDA p :
         IF p = None THEN Res(h, None, "hang")
         ELSE IF h.key[x] < h.key[p]
         THEN Res([h EXCEPT !.left[p] = x, !.parent[x] = p, !.n = @ + 1], None, "none")
         ELSE Res([h EXCEPT !.right[p] = x, !.parent[x] = p, !.n = @ + 1], None, "none"))

(***************************************************************************)
(* BST: rotations                                                          *)
(***************************************************************************)

\* left_rotate returning the node as it is when it has no right child.
left_rotate_unchecked(h, c) ==
    IF c = None THEN Res(h, None, "Exception")
    ELSE IF h.right[c] = None THEN Res(h, c, "none")
    ELSE Bind([h EXCEPT !.parent[h.right[c]] = h.parent[c]], LAMBDA h1 :
         Bind(IF h1.parent[c] = None
              THEN [h1 EXCEPT !.root = h1.right[c]]
              ELSE IF is_left_child(h1, c)
              THEN [h1 EXCEPT !.left[h1.parent[c]] = h1.right[c]]
              ELSE [h1 EXCEPT !.right[h1.parent[c]] = h1.right[c]], LAMBDA h2 :
         Bind([h2 EXCEPT !.parent[c] = h2.right[c]], LAMBDA h3 :
         Bind([h3 EXCEPT !.right[c] = h3.left[h3.parent[c]]], LAMBDA h4 :
         Bind(IF h4.right[c] # None
              THEN [h4 EXCEPT !.parent[h4.right[c]] = c]
              ELSE h4, LAMBDA h5 :
         Bind([h5 EXCEPT !.left[h5.parent[c]] = c], LAMBDA h6 :
         Res(h6, h6.parent[c], "none")))))))

\* left_rotate that never writes the root pointer of the tree.
left_rotate_root_kept(h, c) ==
    IF c = None THEN Res(h, None, "Exception")
    ELSE IF h.right[c] = None THEN Res(h, None, "Exception")
    ELSE Bind([h EXCEPT !.parent[h.right[c]] = h.parent[c]], LAMBDA h1 :
         Bind(IF h1.parent[c] = None
              THEN h1
              ELSE IF is_left_child(h1, c)
              THEN [h1 EXCEPT !.left[h1.parent[c]] = h1.right[c]]
              ELSE [h1 EXCEPT !.right[h1.parent[c]] = h1.right[c]], LAMBDA h2 :
         Bind([h2 EXCEPT !.parent[c] = h2.right[c]], LAMBDA h3 :
         Bind([h3 EXCEPT !.right[c] = h3.left[h3.parent[c]]], LAMBDA h4 :
         Bind(IF h4.right[c] # None
              THEN [h4 EXCEPT !.parent[h4.right[c]] = c]
              ELSE h4, LAMBDA h5 :
         Bind([h5 EXCEPT !.left[h5.parent[c]] = c], LAMBDA h6 :
         Res(h6, h6.parent[c], "none")))))))

\* left_rotate hanging c in the right slot of its new parent.
left_rotate_right_slot(h, c) ==
    IF c = None THEN Res(h, None, "Exception")
    ELSE IF h.right[c] = None THEN Res(h, None, "Exception")
    ELSE Bind([h EXCEPT !.parent[h.right[c]] = h.parent[c]], LAMBDA h1 :
         Bind(IF h1.parent[c] = None
              THEN [h1 EXCEPT !.root = h1.right[c]]
              ELSE IF is_left_child(h1, c)
              THEN [h1 EXCEPT !.left[h1.parent[c]] = h1.right[c]]
              ELSE [h1 EXCEPT !.right[h1.parent[c]] = h1.right[c]], LAMBDA h2 :
         Bind([h2 EXCEPT !.parent[c] = h2.right[c]], LAMBDA h3 :
         Bind([h3 EXCEPT !.right[c] = h3.left[h3.parent[c]]], LAMBDA h4 :
         Bind(IF h4.right[c] # None
              THEN [h4 EXCEPT !.parent[h4.right[c]] = c]
              ELSE h4, LAMBDA h5 :
         Bind([h5 EXCEPT !.right[h5.parent[c]] = c], LAMBDA h6 :
         Res(h6, h6.parent[c], "none")))))))

\* left_rotate from the point where c is resolved to a node (or to None).
left_rotate(h, c) ==
    IF c = None THEN Res(h, None, "Exception")
    ELSE IF h.right[c] = None THEN Res(h, None, "Exception")
    ELSE Bind([h EXCEPT !.parent[h.right[c]] = h.parent[c]], LAMBDA h1 :
         Bind(IF h1.parent[c] = None
              THEN [h1 EXCEPT !.root = h1.right[c]]
              ELSE IF is_left_child(h1, c)
              THEN [h1 EXCEPT !.left[h1.parent[c]] = h1.right[c]]
              ELSE [h1 EXCEPT !.right[h1.parent[c]] = h1.right[c]], LAMBDA h2 :
         Bind([h2 EXCEPT !.parent[c] = h2.right[c]], LAMBDA h3 :
         Bind([h3 EXCEPT !.right[c] = h3.left[h3.parent[c]]], LAMBDA h4 :
         Bind(IF h4.right[c] # None
              THEN [h4 EXCEPT !.parent[h4.right[c]] = c]
              ELSE h4, LAMBDA h5 :
         Bind([h5 EXCEPT !.left[h5.parent[c]] = c], LAMBDA h6 :
         Res(h6, h6.parent[c], "none")))))))

\* right_rotate leaving the parent link of the subtree that moves under c as it was.
right_rotate_inner_parent_kept(h, c) ==
    IF c = None THEN Res(h, None, "Exception")
    ELSE IF h.left[c] = None THEN Res(h, None, "Exception")
    ELSE Bind([h EXCEPT !.parent[h.left[c]] = h.parent[c]], LAMBDA h1 :
         Bind(IF h1.parent[c] = None
              THEN [h1 EXCEPT !.root = h1.left[c]]
              ELSE IF is_left_child(h1, c)
              THEN [h1 EXCEPT !.left[h1.parent[c]] = h1.left[c]]
              ELSE [h1 EXCEPT !.right[h1.parent[c]] = h1.left[c]], LAMBDA h2 :
         Bind([h2 EXCEPT !.parent[c] = h2.left[c]], LAMBDA h3 :
         Bind([h3 EXCEPT !.left[c] = h3.right[h3.parent[c]]], LAMBDA h4 :
         Bind([h4 EXCEPT !.right[h4.parent[c]] = c], LAMBDA h6 :
         Res(h6, h6.parent[c], "none"))))))

right_rotate(h, c) ==
    IF c = None THEN Res(h, None, "Exception")
    ELSE IF h.left[c] = None THEN Res(h, None, "Exception")
    ELSE Bind([h EXCEPT !.parent[h.left[c]] = h.parent[c]], LAMBDA h1 :
         Bind(IF h1.parent[c] = None
              THEN [h1 EXCEPT !.root = h1.left[c]]
              ELSE IF is_left_child(h1, c)
              THEN [h1 EXCEPT !.left[h1.parent[c]] = h1.left[c]]
              ELSE [h1 EXCEPT !.right[h1.parent[c]] = h1.left[c]], LAMBDA h2 :
         Bind([h2 EXCEPT !.parent[c] = h2.left[c]], LAMBDA h3 :
         Bind([h3 EXCEPT !.left[c] = h3.right[h3.parent[c]]], LAMBDA h4 :
         Bind(IF h4.left[c] # None
              THEN [h4 EXCEPT !.parent[h4.left[c]] = c]
              ELSE h4, LAMBDA h5 :
         Bind([h5 EXCEPT !.right[h5.parent[c]] = c], LAMBDA h6 :
         Res(h6, h6.parent[c], "none")))))))

\* _root_insert without the rotations: the node stays where the walk ends.
RECURSIVE _root_insert_no_rotation(_, _, _, _)
_root_insert_no_rotation(h, u, v, fuel) ==
    IF u = None THEN Res(h, v, "none")
    ELSE IF fuel = 0 THEN Res(h, None, "RecursionError")
    ELSE IF h.key[v] < h.key[u]
    THEN Bind(_root_insert_no_rotation(h, h.left[u], v, fuel - 1), LAMBDA r :
         IF r.err # "none" THEN r
         ELSE Res([r.h EXCEPT !.left[u] = r.ret, !.parent[r.ret] = u], u, "none"))
    ELSE Bind(_root_insert_no_rotation(h, h.right[u], v, fuel - 1), LAMBDA r :
         IF r.err # "none" THEN r
         ELSE Res([r.h EXCEPT !.right[u] = r.ret, !.parent[r.ret] = u], u, "none"))

\* The recursion descends without writing; more nested calls than there are
\* nodes happen only on a cycle, where Python ends the recursion with RecursionError.
RECURSIVE _root_insert(_, _, _, _)
_root_insert(h, u, v, fuel) ==
    IF u = None THEN Res(h, v, "none")
    ELSE IF fuel = 0 THEN Res(h, None, "RecursionError")
    ELSE IF h.key[v] < h.key[u]
    THEN Bind(_root_insert(h, h.left[u], v, fuel - 1), LAMBDA r :
         IF r.err # "none" THEN r
         ELSE right_rotate([r.h EXCEPT !.left[u] = r.ret], u))
    ELSE Bind(_root_insert(h, h.right[u], v, fuel - 1), LAMBDA r :
         IF r.err # "none" THEN r
         ELSE left_rotate([r.h EXCEPT !.right[u] = r.ret], u))

root_insert(h, x) ==
    IF h.root = None THEN Res(_initialise(h, x), None, "none")
    ELSE Bind(_root_insert(h, h.root, x, Cells(h)), LAMBDA r :
         IF r.err # "none" THEN Res(r.h, None, r.err)
         ELSE Res([r.h EXCEPT !.n = @ + 1], None, "none"))

(***************************************************************************)
(* BST: search, minimum, maximum, successor                                *)
(***************************************************************************)

\* _search_r descending to the left whenever the key differs.
RECURSIVE _search_r_descends_left(_, _, _, _)
_search_r_descends_left(h, kk, s, fuel) ==
    IF s = None THEN Res(h, s, "none")
    ELSE IF kk = h.key[s] THEN Res(h, s, "none")
    ELSE IF fuel = 0 THEN Res(h, None, "RecursionError")
    ELSE _search_r_descends_left(h, kk, h.left[s], fuel - 1)

RECURSIVE _search_r(_, _, _, _)
_search_r(h, kk, s, fuel) ==
    IF s = None THEN Res(h, s, "none")
    ELSE IF kk = h.key[s] THEN Res(h, s, "none")
    ELSE IF fuel = 0 THEN Res(h, None, "RecursionError")
    ELSE IF kk < h.key[s] THEN _search_r(h, kk, h.left[s], fuel - 1)
    ELSE _search_r(h, kk, h.right[s], fuel - 1)

search_r(h, kk) == _search_r(h, kk, h.root, Cells(h))

\* The loop of _search_i never ends on a cycle that does not hold the key.
RECURSIVE _search_i(_, _, _, _)
_search_i(h, kk, c, fuel) ==
    IF c = None THEN Res(h, None, "none")
    ELSE IF kk = h.key[c] THEN Res(h, c, "none")
    ELSE IF fuel = 0 THEN Res(h, None, "hang")
    ELSE IF kk < h.key[c] THEN _search_i(h, kk, h.left[c], fuel - 1)
    ELSE _search_i(h, kk, h.right[c], fuel - 1)

search(h, kk) == _search_i(h, kk, h.root, Cells(h))

search_i(h, kk) == _search_i(h, kk, h.root, Cells(h))

contains(h, kk) == search_r(h, kk).ret # None

\* _rank counting the nodes with u.key <= key.
RECURSIVE _rank_counts_equal(_, _, _, _, _)
_rank_counts_equal(h, u, kk, r, fuel) ==
    IF u = None THEN Res(h, r, "none")
    ELSE IF fuel = 0 THEN Res(h, None, "RecursionError")
    ELSE Bind(_rank_counts_equal(h, h.left[u], kk,
                                 IF h.key[u] <= kk THEN r + 1 ELSE r, fuel - 1),
              LAMBDA r1 :
         IF r1.err # "none" THEN r1
         ELSE _rank_counts_equal(h, h.right[u], kk, r1.ret, fuel - 1))

\* _rank that does not descend into the right subtree.
RECURSIVE _rank_left_only(_, _, _, _, _)
_rank_left_only(h, u, kk, r, fuel) ==
    IF u = None THEN Res(h, r, "none")
    ELSE IF fuel = 0 THEN Res(h, None, "RecursionError")
    ELSE _rank_left_only(h, h.left[u], kk, IF h.key[u] < kk THEN r + 1 ELSE r, fuel - 1)

\* _rank visits every node under u and counts in r those with a smaller key.
RECURSIVE _rank(_, _, _, _, _)
_rank(h, u, kk, r, fuel) ==
    IF u = None THEN Res(h, r, "none")
    ELSE IF fuel = 0 THEN Res(h, None, "RecursionError")
    ELSE Bind(_rank(h, h.left[u], kk, IF h.key[u] < kk THEN r + 1 ELSE r, fuel - 1),
              LAMBDA r1 :
         IF r1.err # "none" THEN r1
         ELSE _rank(h, h.right[u], kk, r1.ret, fuel - 1))

rank(h, kk) ==
    IF h.root = None THEN Res(h, 0, "none")
    ELSE _rank(h, h.root, kk, 0, Cells(h))

Max(a, b) == IF a >= b THEN a ELSE b

\* _height with an empty subtree counted as 0.
RECURSIVE _height_empty_is_zero(_, _, _)
_height_empty_is_zero(h, u, fuel) ==
    IF u = None THEN Res(h, 0, "none")
    ELSE IF fuel = 0 THEN Res(h, None, "RecursionError")
    ELSE Bind(_height_empty_is_zero(h, h.left[u], fuel - 1), LAMBDA l :
         Bind(_height_empty_is_zero(h, h.right[u], fuel - 1), LAMBDA r :
         IF l.err # "none" THEN l
         ELSE IF r.err # "none" THEN r
         ELSE Res(h, 1 + Max(l.ret, r.ret), "none")))

RECURSIVE _height(_, _, _)
_height(h, u, fuel) ==
    IF u = None THEN Res(h, -1, "none")
    ELSE IF fuel = 0 THEN Res(h, None, "RecursionError")
    ELSE Bind(_height(h, h.left[u], fuel - 1), LAMBDA l :
         Bind(_height(h, h.right[u], fuel - 1), LAMBDA r :
         IF l.err # "none" THEN l
         ELSE IF r.err # "none" THEN r
         ELSE Res(h, 1 + Max(l.ret, r.ret), "none")))

height(h) ==
    IF h.root = None THEN Res(h, 0, "none")
    ELSE _height(h, h.root, Cells(h))

RECURSIVE _minimum_r(_, _, _)
_minimum_r(h, u, fuel) ==
    IF u = None THEN Res(h, None, "AttributeError")
    ELSE IF h.left[u] = None THEN Res(h, u, "none")
    ELSE IF fuel = 0 THEN Res(h, None, "RecursionError")
    ELSE _minimum_r(h, h.left[u], fuel - 1)

RECURSIVE _maximum_r(_, _, _)
_maximum_r(h, u, fuel) ==
    IF u = None THEN Res(h, None, "AttributeError")
    ELSE IF h.right[u] = None THEN Res(h, u, "none")
    ELSE IF fuel = 0 THEN Res(h, None, "RecursionError")
    ELSE _maximum_r(h, h.right[u], fuel - 1)

minimum(h) == IF h.root # None THEN _minimum_r(h, h.root, Cells(h))
              ELSE Res(h, None, "none")

maximum(h) == IF h.root # None THEN _maximum_r(h, h.root, Cells(h))
              ELSE Res(h, None, "none")

\* The while loop of successor, climbing while u is the right child of p.
RECURSIVE successor_climb(_, _, _, _)
successor_climb(h, u, p, fuel) ==
    IF p = None \/ h.right[p] # u THEN Res(h, p, "none")
    ELSE IF fuel = 0 THEN Res(h, None, "hang")
    ELSE successor_climb(h, p, h.parent[p], fuel - 1)

\* successor of a node object.  BST._minimum_r(u.right) calls an instance
\* method through the class with one argument: it raises TypeError.
successor(h, u) ==
    IF h.right[u] # None THEN Res(h, None, "TypeError")
    ELSE successor_climb(h, u, h.parent[u], Cells(h))

\* The while loop of predecessor, climbing while u is the left child of p.
RECURSIVE predecessor_climb(_, _, _, _)
predecessor_climb(h, u, p, fuel) ==
    IF p = None \/ h.left[p] # u THEN Res(h, p, "none")
    ELSE IF fuel = 0 THEN Res(h, None, "hang")
    ELSE predecessor_climb(h, p, h.parent[p], fuel - 1)

\* predecessor of a node object.  BST._maximum_r(u.left) raises TypeError
\* like the call in successor.
predecessor(h, u) ==
    IF h.left[u] # None THEN Res(h, None, "TypeError")
    ELSE predecessor_climb(h, u, h.parent[u], Cells(h))

(***************************************************************************)
(* BST: removals and deletions                                             *)
(***************************************************************************)

is_the_root(h, u) == u = h.root

\* m.parent.right = ... raises AttributeError when m has no parent.
_remove_max(h, u) ==
    Bind(_maximum_r(h, u, Cells(h)), LAMBDA f :
    IF f.err # "none" THEN f
    ELSE Bind(f.ret, LAMBDA m :
         Bind(IF h.left[m] # None
              THEN IF is_the_root(h, m)
                   THEN Res([h EXCEPT !.root = h.left[m], !.parent[h.left[m]] = None],
                            m, "none")
                   ELSE Bind([h EXCEPT !.parent[h.left[m]] = h.parent[m]], LAMBDA a1 :
                        IF a1.parent[m] = None
                        THEN Res(a1, None, "AttributeError")
                        ELSE Res([a1 EXCEPT !.right[a1.parent[m]] = a1.left[m]],
                                 m, "none"))
              ELSE IF is_the_root(h, m)
                   THEN Res([h EXCEPT !.root = None], m, "none")
                   ELSE IF h.parent[m] = None
                        THEN Res(h, None, "AttributeError")
                        ELSE Res([h EXCEPT !.right[h.parent[m]] = None], m, "none"),
              LAMBDA a :
         IF a.err # "none" THEN a
         ELSE Res([a.h EXCEPT !.parent[m] = None, !.left[m] = None, !.n = @ - 1],
                  m, "none"))))

remove_max(h) == IF h.n > 0 THEN _remove_max(h, h.root) ELSE Res(h, None, "none")

\* _remove_min leaving the parent link of the right child of the minimum as it was.
_remove_min_child_parent_kept(h, u) ==
    Bind(_minimum_r(h, u, Cells(h)), LAMBDA f :
    IF f.err # "none" THEN f
    ELSE Bind(f.ret, LAMBDA m :
         Bind(IF h.right[m] # None
              THEN IF is_the_root(h, m)
                   THEN Res([h EXCEPT !.root = h.right[m]], m, "none")
                   ELSE IF h.parent[m] = None
                        THEN Res(h, None, "AttributeError")
                        ELSE Res([h EXCEPT !.left[h.parent[m]] = h.right[m]], m, "none")
              ELSE IF is_the_root(h, m)
                   THEN Res([h EXCEPT !.root = None], m, "none")
                   ELSE IF h.parent[m] = None
                        THEN Res(h, None, "AttributeError")
                        ELSE Res([h EXCEPT !.left[h.parent[m]] = None], m, "none"),
              LAMBDA a :
         IF a.err # "none" THEN a
         ELSE Res([a.h EXCEPT !.right[m] = None, !.parent[m] = None, !.n = @ - 1],
                  m, "none"))))

_remove_min(h, u) ==
    Bind(_minimum_r(h, u, Cells(h)), LAMBDA f :
    IF f.err # "none" THEN f
    ELSE Bind(f.ret, LAMBDA m :
         Bind(IF h.right[m] # None
              THEN IF is_the_root(h, m)
                   THEN Res([h EXCEPT !.root = h.right[m], !.parent[h.right[m]] = None],
                            m, "none")
                   ELSE Bind([h EXCEPT !.parent[h.right[m]] = h.parent[m]], LAMBDA a1 :
                        IF a1.parent[m] = None
                        THEN Res(a1, None, "AttributeError")
                        ELSE Res([a1 EXCEPT !.left[a1.parent[m]] = a1.right[m]],
                                 m, "none"))
              ELSE IF is_the_root(h, m)
                   THEN Res([h EXCEPT !.root = None], m, "none")
                   ELSE IF h.parent[m] = None
                        THEN Res(h, None, "AttributeError")
                        ELSE Res([h EXCEPT !.left[h.parent[m]] = None], m, "none"),
              LAMBDA a :
         IF a.err # "none" THEN a
         ELSE Res([a.h EXCEPT !.right[m] = None, !.parent[m] = None, !.n = @ - 1],
                  m, "none"))))

remove_min(h) == IF h.n > 0 THEN _remove_min(h, h.root) ELSE Res(h, None, "none")

__delete__at_most_one_child(h, u) ==
    Bind(IF h.left[u] # None THEN h.left[u] ELSE h.right[u], LAMBDA child :
    Bind(IF h.parent[u] = None
         THEN [h EXCEPT !.root = child]
         ELSE IF is_left_child(h, u)
         THEN [h EXCEPT !.left[h.parent[u]] = child]
         ELSE [h EXCEPT !.right[h.parent[u]] = child], LAMBDA h1 :
    IF child # None THEN [h1 EXCEPT !.parent[child] = h1.parent[u]] ELSE h1))

\* Switches the positions of u and its successor s.
__replace(h, u, s) ==
    Bind(h.parent[s], LAMBDA sp :
    Bind(h.right[s], LAMBDA src :
    Bind([h EXCEPT !.parent[s] = h.parent[u]], LAMBDA h1 :
    Bind(IF h1.parent[u] # None
         THEN IF is_left_child(h1, u)
              THEN [h1 EXCEPT !.left[h1.parent[u]] = s]
              ELSE [h1 EXCEPT !.right[h1.parent[u]] = s]
         ELSE [h1 EXCEPT !.root = s], LAMBDA h2 :
    Bind([h2 EXCEPT !.left[s] = h2.left[u]], LAMBDA h3 :
    Bind(IF h3.left[u] # None THEN [h3 EXCEPT !.parent[h3.left[u]] = s] ELSE h3,
         LAMBDA h4 :
    Bind(IF s # h4.right[u]
         THEN [h4 EXCEPT !.right[s] = h4.right[u], !.parent[h4.right[u]] = s]
         ELSE [h4 EXCEPT !.right[s] = u], LAMBDA h5 :
    Bind(IF sp # u
         THEN [h5 EXCEPT !.parent[u] = sp, !.left[sp] = u]
         ELSE [h5 EXCEPT !.parent[u] = s], LAMBDA h6 :
    Bind([h6 EXCEPT !.right[u] = src], LAMBDA h7 :
    Bind(IF src # None THEN [h7 EXCEPT !.parent[src] = u] ELSE h7, LAMBDA h8 :
    [h8 EXCEPT !.left[u] = None]))))))))))

\* __delete and __delete__two_children call each other.  The call of
\* successor is made on a node with a right child, so it raises and neither
\* __replace nor the second __delete runs; the exception leaves __delete
\* before the line that clears the links of u.
RECURSIVE __delete(_, _)
__delete__two_children(h, u) ==
    Bind(successor(h, u), LAMBDA s :
    IF s.err # "none" THEN s
    ELSE IF s.ret = None THEN Res(h, None, "AttributeError")
    ELSE __delete(__replace(h, u, s.ret), u))

__delete(h, u) ==
    Bind(IF has_two_children(h, u)
         THEN __delete__two_children(h, u)
         ELSE Res(__delete__at_most_one_child(h, u), None, "none"), LAMBDA r :
    IF r.err # "none" THEN Res(r.h, None, r.err)
    ELSE Res([r.h EXCEPT !.right[u] = None, !.left[u] = None, !.parent[u] = None],
             u, "none"))

\* delete without the decrement of n.
delete_no_decrement(h, x) ==
    IF x = None THEN Res(h, None, "LookupError")
    ELSE IF h.parent[x] = None /\ x # h.root THEN Res(h, None, "LookupError")
    ELSE __delete(h, x)

\* delete from the point where x is a node object or the result of search_r.
delete(h, x) ==
    IF x = None THEN Res(h, None, "LookupError")
    ELSE IF h.parent[x] = None /\ x # h.root THEN Res(h, None, "LookupError")
    ELSE __delete([h EXCEPT !.n = @ - 1], x)

\* insert: r is the value drawn by randint(0, size * 3 // 8), which raises
\* ValueError on an empty range; -1 stands for that case.
insert(h, x, r) ==
    IF r < 0 THEN Res(h, None, "ValueError")
    ELSE IF r = 0 THEN root_insert(h, x)
    ELSE tail_insert(h, x)

randint(h) == IF (h.n * 3) \div 8 < 0 THEN {-1} ELSE 0..((h.n * 3) \div 8)

\* insert_many: insert for every element of ls, each with its own draw; the
\* loop ends at the first call that raises.  The outcomes of all draws, each
\* with the number al of nodes created.
RECURSIVE insert_many(_, _, _)
insert_many(h, ls, al) ==
    IF ls = <<>> THEN {[h |-> h, ret |-> None, err |-> "none", alloc |-> al]}
    ELSE UNION {IF rnd < 0
                THEN {[h |-> h, ret |-> None, err |-> "ValueError", alloc |-> al]}
                ELSE Bind(insert(BSTNode(h, al + 1, Head(ls)), al + 1, rnd), LAMBDA r :
                     IF r.err # "none"
                     THEN {[h |-> r.h, ret |-> None, err |-> r.err, alloc |-> al + 1]}
                     ELSE insert_many(r.h, Tail(ls), al + 1)) : rnd \in randint(h)}

(***************************************************************************)
(* Reachability                                                            *)
(***************************************************************************)

Children(h, u) == {h.left[u], h.right[u]} \ {None}

RECURSIVE Closure(_, _)
Closure(h, S) ==
    Bind(S \cup UNION {Children(h, u) : u \in S}, LAMBDA T :
    IF T = S THEN S ELSE Closure(h, T))

\* The nodes under u, u included.
Subtree(h, u) == IF u = None THEN {} ELSE Closure(h, {u})

\* The nodes of the tree: those reachable from root through left and right.
Reachable(h) == Subtree(h, h.root)

InTree == Reachable(Heap)

(***************************************************************************)
(* The program: one action per public call                                 *)
(***************************************************************************)

NoLinks == [i \in NodeIds |-> None]

Init ==
    /\ root = None
    /\ n = 0
    /\ key = [i \in NodeIds |-> 0]
    /\ parent = NoLinks
    /\ left = NoLinks
    /\ right = NoLinks
    /\ alloc = 0
    /\ hung = FALSE
    /\ last = [op |-> "init", err |-> "none", ret |-> None, kids |-> -1]
    /\ k = 0
    /\ d = 0
    /\ clean = TRUE
    /\ objcalls = 0
    /\ tw = 0 /\ ws = <<>> /\ vs = <<>> /\ out = NoOutcome

Kids(h, u) == IF u = None THEN -1 ELSE Cardinality(Children(h, u))

\* The argument x of a call: a key, or a BSTNode object that exists already
\* (isinstance(x, BSTNode)).
KeyArgs == {<<"key", kk>> : kk \in Keys}
NodeArgs(S) == {<<"node", x>> : x \in S}
isinstance(a) == a[1] = "node"

\* The call ends with result r; a call that never returns leaves the program
\* inside it for good.  last records the call: its name, the exception, the
\* value returned and the number of children its node had before the call.
Finish(r, op, kids) ==
    /\ root' = r.h.root
    /\ n' = r.h.n
    /\ key' = r.h.key
    /\ parent' = r.h.parent
    /\ left' = r.h.left
    /\ right' = r.h.right
    /\ hung' = (r.err = "hang")
    /\ last' = [op |-> op, err |-> r.err, ret |-> r.ret, kids |-> kids]
    /\ UNCHANGED <<tw, ws, vs, out>>

\* The calls that decrement n are followed as long as n is not more than
\* MaxDeficit below the number of nodes of the tree.
Within(r) == Cardinality(Reachable(r.h)) - r.h.n <= MaxDeficit

\* k and d count the insertion and delete calls for as long as nothing but
\* insertion and delete calls that returned has happened.
CountInsert(r) ==
    IF clean /\ r.err = "none"
    THEN k' = k + 1 /\ d' = d /\ clean' = TRUE
    ELSE k' = 0 /\ d' = 0 /\ clean' = FALSE

CountDelete(r) ==
    IF clean /\ r.err = "none"
    THEN k' = k /\ d' = d + 1 /\ clean' = TRUE
    ELSE k' = 0 /\ d' = 0 /\ clean' = FALSE

CountOther == k' = 0 /\ d' = 0 /\ clean' = FALSE

\* objcalls counts the calls from the first one that passes an existing node
\* object to an insertion, or a node that is not in the tree to delete or to
\* a rotation; the model follows MaxObjCalls of them.
Outside(a) == isinstance(a) /\ a[2] \notin InTree

Budget == objcalls < MaxObjCalls

Counted(outside) == objcalls' = IF objcalls > 0 \/ outside THEN objcalls + 1 ELSE objcalls

NodeCall(a) == Counted(Outside(a)) /\ UNCHANGED alloc

\* An insertion with a key creates the BSTNode in the next free cell; one with
\* a node object uses the object as it is.
CanInsert(a) == ~hung /\ Budget /\ (~isinstance(a) => alloc < MaxNodes)

InsertCall(a) ==
    /\ alloc' = IF isinstance(a) THEN alloc ELSE alloc + 1
    /\ Counted(isinstance(a))

Inserted(a) == IF isinstance(a) THEN a[2] ELSE alloc + 1

WithNode(a) == IF isinstance(a) THEN Heap ELSE BSTNode(Heap, alloc + 1, a[2])

TailInsert(a) ==
    /\ CanInsert(a)
    /\ \E r \in {tail_insert(WithNode(a), Inserted(a))} :
         Finish(r, "tail_insert", -1) /\ CountInsert(r)
    /\ InsertCall(a)

RootInsert(a) ==
    /\ CanInsert(a)
    /\ \E r \in {root_insert(WithNode(a), Inserted(a))} :
         Finish(r, "root_insert", -1) /\ CountInsert(r)
    /\ InsertCall(a)

\* insert draws before it creates the node.
Insert(a) ==
    /\ CanInsert(a)
    /\ \E rnd \in randint(Heap) :
         \E r \in {IF rnd < 0 THEN insert(Heap, Inserted(a), rnd)
                   ELSE insert(WithNode(a), Inserted(a), rnd)} :
             /\ Finish(r, "insert", -1) /\ CountInsert(r)
             /\ alloc' = IF isinstance(a) \/ rnd < 0 THEN alloc ELSE alloc + 1
             /\ Counted(isinstance(a))

\* delete(x) resolves a key with search_r.
Delete(a) ==
    /\ ~hung /\ Budget
    /\ \E f \in {IF isinstance(a) THEN Res(Heap, a[2], "none") ELSE search_r(Heap, a[2])} :
         \E r \in {IF f.err # "none" THEN f ELSE delete(Heap, f.ret)} :
             Within(r) /\ Finish(r, "delete", Kids(Heap, f.ret)) /\ CountDelete(r)
    /\ NodeCall(a)

\* left_rotate(x) and right_rotate(x) resolve a key with search.
LeftRotate(a) ==
    /\ ~hung /\ Budget
    /\ \E f \in {IF isinstance(a) THEN Res(Heap, a[2], "none") ELSE search(Heap, a[2])} :
         \E r \in {IF f.err # "none" THEN f ELSE left_rotate(Heap, f.ret)} :
             Finish(r, "left_rotate", Kids(Heap, f.ret))
    /\ CountOther
    /\ NodeCall(a)

RightRotate(a) ==
    /\ ~hung /\ Budget
    /\ \E f \in {IF isinstance(a) THEN Res(Heap, a[2], "none") ELSE search(Heap, a[2])} :
         \E r \in {IF f.err # "none" THEN f ELSE right_rotate(Heap, f.ret)} :
             Finish(r, "right_rotate", Kids(Heap, f.ret))
    /\ CountOther
    /\ NodeCall(a)

RemoveMin ==
    /\ ~hung /\ Budget
    /\ \E r \in {remove_min(Heap)} :
         Within(r) /\ Finish(r, "remove_min", Kids(Heap, r.ret))
    /\ CountOther
    /\ Counted(FALSE) /\ UNCHANGED alloc

RemoveMax ==
    /\ ~hung /\ Budget
    /\ \E r \in {remove_max(Heap)} :
         Within(r) /\ Finish(r, "remove_max", Kids(Heap, r.ret))
    /\ CountOther
    /\ Counted(FALSE) /\ UNCHANGED alloc

Clear ==
    /\ ~hung /\ Budget
    /\ Finish(Res(clear(Heap), None, "none"), "clear", -1)
    /\ CountOther
    /\ Counted(FALSE) /\ UNCHANGED alloc

\* The lists of keys passed to insert_many.
ManyArgs == UNION {[1..len -> Keys] : len \in 1..MaxMany}

InsertMany(ls) ==
    /\ ~hung /\ Budget
    /\ alloc + Len(ls) <= MaxNodes
    /\ \E r \in insert_many(Heap, ls, alloc) :
         /\ Finish(r, "insert_many", -1)
         /\ alloc' = r.alloc
    /\ CountOther
    /\ Counted(FALSE)

(***************************************************************************)
(* The invariants of the data model                                        *)
(***************************************************************************)

\* _in_order_traversal: the nodes in the order in which they are printed.
\* The recursion is cut where Python raises RecursionError, on a cycle.
RECURSIVE _in_order_traversal(_, _, _)
_in_order_traversal(h, u, fuel) ==
    IF u = None \/ fuel = 0 THEN <<>>
    ELSE _in_order_traversal(h, h.left[u], fuel - 1) \o <<u>>
         \o _in_order_traversal(h, h.right[u], fuel - 1)

in_order_traversal(h) == _in_order_traversal(h, h.root, Cells(h))

\* Left-strict, right-inclusive ordering.
Ordered(h) ==
    \A u \in Reachable(h) :
        /\ \A w \in Subtree(h, h.left[u]) : h.key[w] < h.key[u]
        /\ \A w \in Subtree(h, h.right[u]) : h.key[w] >= h.key[u]

\* Ordering with equal keys allowed on both sides.
OrderedWeak(h) ==
    \A u \in Reachable(h) :
        /\ \A w \in Subtree(h, h.left[u]) : h.key[w] <= h.key[u]
        /\ \A w \in Subtree(h, h.right[u]) : h.key[w] >= h.key[u]

ParentConsistent(h) ==
    /\ h.root # None => h.parent[h.root] = None
    /\ \A u \in Reachable(h) : \A c \in Children(h, u) : h.parent[c] = u

\* No node is its own ancestor and no node is held in two slots.
Acyclic(h) ==
    /\ \A u \in Reachable(h) :
         /\ u \notin Subtree(h, h.left[u]) \cup Subtree(h, h.right[u])
         /\ h.left[u] # None => h.left[u] # h.right[u]
    /\ \A u, v \in Reachable(h) : u # v => Children(h, u) \cap Children(h, v) = {}
    /\ \A u \in Reachable(h) : h.root \notin Children(h, u)

SizeOK(h) == h.n = Cardinality(Reachable(h))

Shaped(h) == Ordered(h) /\ ParentConsistent(h) /\ Acyclic(h)

Valid(h) == Shaped(h) /\ SizeOK(h)

HeapNext == Heap'

Detached(h, u) == h.parent[u] = None /\ h.left[u] = None /\ h.right[u] = None

WithKey(h, kk) == {u \in Reachable(h) : h.key[u] = kk}

(***************************************************************************)
(* zero_one_knapsack.py                                                    *)
(*                                                                         *)
(* A list is a sequence, so the Python index i is the position i + 1.  The *)
(* matrix profits is a function over the Python indices of its rows, each  *)
(* row a function over the Python indices of its columns.  A function      *)
(* returns the record [ret, err].                                          *)
(***************************************************************************)

Outcome(ret, err) == [ret |-> ret, err |-> err]

\* s[:-1]
but_last(s) == SubSeq(s, 1, Len(s) - 1)

_get_zero_one_knapsack_matrix(total_weight, items) ==
    [j \in 0..(items + 1) |->
        [x \in 0..(total_weight + 1) |->
            IF j = 0 THEN (IF x >= 1 THEN x - 1 ELSE 0)
            ELSE IF x = 0 THEN j - 1
            ELSE 0]]

\* The inner loop of zero_one_knapsack, from column w of row i on.
RECURSIVE weights_loop(_, _, _, _, _, _)
weights_loop(profits, i, w, total_weight, weights, values) ==
    IF w > total_weight + 1 THEN profits
    ELSE weights_loop(
             [profits EXCEPT ![i][w] =
                 IF weights[i - 1] > w - 1
                 THEN profits[i - 1][w]
                 ELSE Max(profits[i - 1][w],
                          values[i - 1] + profits[i - 1][w - weights[i - 1]])],
             i, w + 1, total_weight, weights, values)

\* The outer loop of zero_one_knapsack, from row i on.
RECURSIVE items_loop(_, _, _, _, _)
items_loop(profits, i, total_weight, weights, values) ==
    IF i > Len(weights) + 1 THEN profits
    ELSE items_loop(weights_loop(profits, i, 2, total_weight, weights, values),
                    i + 1, total_weight, weights, values)

\* profits[-1][-1] is the last column of the last row.
zero_one_knapsack(total_weight, weights, values) ==
    IF Len(weights) # Len(values) THEN Outcome(None, "Exception")
    ELSE Bind(items_loop(_get_zero_one_knapsack_matrix(total_weight, Len(weights)),
                         2, total_weight, weights, values), LAMBDA profits :
         Outcome(profits[Len(weights) + 1][total_weight + 1], "none"))

RECURSIVE _recursive_01_knapsack_aux(_, _, _, _)
_recursive_01_knapsack_aux(capacity, w, v, value) ==
    IF capacity = 0 THEN 0
    ELSE IF Len(w) > 0 /\ Len(v) > 0
    THEN IF w[Len(w)] > capacity
         THEN _recursive_01_knapsack_aux(capacity, but_last(w), but_last(v), value)
         ELSE Max(v[Len(v)] + _recursive_01_knapsack_aux(capacity - w[Len(w)],
                                                         but_last(w), but_last(v), value),
                  _recursive_01_knapsack_aux(capacity, but_last(w), but_last(v), value))
    ELSE value

recursive_01_knapsack(total_weight, weights, values) ==
    IF Len(weights) # Len(values) THEN Outcome(None, "ValueError")
    ELSE Outcome(_recursive_01_knapsack_aux(total_weight, weights, values, 0), "none")

\* The cell of the table m that holds no value yet (None).
Unset == -1

\* The position that the Python index i has in a list of len elements: a
\* negative index counts from the end; 0 when the subscript raises IndexError.
index(len, i) ==
    IF i >= 0 /\ i < len THEN i + 1
    ELSE IF i < 0 /\ -i <= len THEN len + i + 1
    ELSE 0

\* What _memoized_01_knapsack_aux leaves: the value returned, the exception,
\* the table m, and whether a call for no items has used m[-1], the row of
\* the calls for all the items.
Memo(ret, err, m, wrapped) == [ret |-> ret, err |-> err, m |-> m, wrapped |-> wrapped]

\* max() evaluates its first argument, the call that takes the item, before
\* the second one, which reads the table left by the first.
RECURSIVE _memoized_01_knapsack_aux(_, _, _, _, _)
_memoized_01_knapsack_aux(capacity, w, v, value, m) ==
    IF capacity = 0 THEN Memo(0, "none", m, FALSE)
    ELSE Bind(index(Len(m), Len(w) - 1), LAMBDA r :
         IF r = 0 THEN Memo(None, "IndexError", m, FALSE)
         ELSE Bind(index(Len(m[r]), capacity - 1), LAMBDA c :
              IF c = 0 THEN Memo(None, "IndexError", m, FALSE)
              ELSE IF m[r][c] # Unset THEN Memo(m[r][c], "none", m, Len(w) = 0)
              ELSE Bind(IF Len(w) > 0 /\ Len(v) > 0
                        THEN IF w[Len(w)] > capacity
                             THEN _memoized_01_knapsack_aux(capacity, but_last(w),
                                                            but_last(v), value, m)
                             ELSE Bind(_memoized_01_knapsack_aux(capacity - w[Len(w)],
                                           but_last(w), but_last(v), value, m), LAMBDA a :
                                  IF a.err # "none" THEN a
                                  ELSE Bind(_memoized_01_knapsack_aux(capacity,
                                                but_last(w), but_last(v), value, a.m),
                                            LAMBDA b :
                                       IF b.err # "none" THEN b
                                       ELSE Memo(Max(v[Len(v)] + a.ret, b.ret), "none",
                                                 b.m, a.wrapped \/ b.wrapped)))
                        ELSE Memo(value, "none", m, FALSE), LAMBDA s :
                   IF s.err # "none" THEN s
                   ELSE Memo(s.ret, "none", [s.m EXCEPT ![r][c] = s.ret],
                             s.wrapped \/ Len(w) = 0))))

memoized_01_knapsack(capacity, weights, values) ==
    _memoized_01_knapsack_aux(capacity, weights, values, 0,
        [row \in 1..Len(weights) |-> [col \in 1..capacity |-> Unset]])

(***************************************************************************)
(* Specifications                                                          *)
(***************************************************************************)

Created == 1..alloc

\* Every public call, node objects of any origin included.
Next ==
    \/ \E a \in KeyArgs \cup NodeArgs(Created) : TailInsert(a)
    \/ \E a \in KeyArgs \cup NodeArgs(Created) : RootInsert(a)
    \/ \E a \in KeyArgs \cup NodeArgs(Created) : Insert(a)
    \/ \E a \in KeyArgs \cup NodeArgs(Created) : Delete(a)
    \/ \E a \in KeyArgs \cup NodeArgs(Created) : LeftRotate(a)
    \/ \E a \in KeyArgs \cup NodeArgs(Created) : RightRotate(a)
    \/ RemoveMin
    \/ RemoveMax
    \/ Clear
    \/ \E ls \in ManyArgs : InsertMany(ls)

Spec == Init /\ [][Next]_vars

\* The calls of a client that inserts keys (or new node objects) and passes
\* delete and the rotations a key or a node that is in the tree.
NextKeys ==
    \/ \E a \in KeyArgs : TailInsert(a)
    \/ \E a \in KeyArgs : RootInsert(a)
    \/ \E a \in KeyArgs : Insert(a)
    \/ \E a \in KeyArgs \cup NodeArgs(InTree) : Delete(a)
    \/ \E a \in KeyArgs \cup NodeArgs(InTree) : LeftRotate(a)
    \/ \E a \in KeyArgs \cup NodeArgs(InTree) : RightRotate(a)
    \/ RemoveMin
    \/ RemoveMax
    \/ Clear
    \/ \E ls \in ManyArgs : InsertMany(ls)

SpecKeys == Init /\ [][NextKeys]_vars

\* The keys of the scenario, in the order in which tail_insert gets them.
Scenario == <<5, 3, 8, 1, 4, 7, 9>>

ScenarioIds == 1..Len(Scenario)

ScenarioKeys == {Scenario[i] : i \in ScenarioIds}

InitScenario ==
    /\ root = None
    /\ n = 0
    /\ key = [i \in ScenarioIds |-> 0]
    /\ parent = [i \in ScenarioIds |-> None]
    /\ left = [i \in ScenarioIds |-> None]
    /\ right = [i \in ScenarioIds |-> None]
    /\ alloc = 0
    /\ hung = FALSE
    /\ last = [op |-> "init", err |-> "none", ret |-> None, kids |-> -1]
    /\ k = 0
    /\ d = 0
    /\ clean = TRUE
    /\ objcalls = 0
    /\ tw = 0 /\ ws = <<>> /\ vs = <<>> /\ out = NoOutcome

\* tail_insert of a key of the scenario that no node holds yet.
ScenarioTailInsert(kk) ==
    /\ alloc < Len(Scenario)
    /\ \A i \in 1..alloc : key[i] # kk
    /\ \E r \in {tail_insert(BSTNode(Heap, alloc + 1, kk), alloc + 1)} :
         Finish(r, "tail_insert", -1) /\ CountInsert(r)
    /\ alloc' = alloc + 1
    /\ Counted(FALSE)

NextScenario == \E kk \in ScenarioKeys : ScenarioTailInsert(kk)

\* A tree built by tail_insert of keys of the scenario, in any order.
SpecScenario == InitScenario /\ [][NextScenario]_vars

MaxItems == 2       \* longest list of weights and longest list of values
MaxWeight == 2      \* the capacity and the weight of an item are 0..MaxWeight
MaxValue == 2       \* the value of an item is 0..MaxValue

Lists(S) == UNION {[1..len -> S] : len \in 0..MaxItems}

\* The arguments of the knapsack functions: a capacity and two lists of
\* non-negative integers, of the same length or not.  The tree stays empty.
InitKnapsack ==
    /\ root = None
    /\ n = 0
    /\ key = [i \in NodeIds |-> 0]
    /\ parent = NoLinks
    /\ left = NoLinks
    /\ right = NoLinks
    /\ alloc = 0
    /\ hung = FALSE
    /\ last = [op |-> "init", err |-> "none", ret |-> None, kids |-> -1]
    /\ k = 0
    /\ d = 0
    /\ clean = TRUE
    /\ objcalls = 0
    /\ tw \in 0..MaxWeight
    /\ ws \in Lists(0..MaxWeight)
    /\ vs \in Lists(0..MaxValue)
    /\ out = NoOutcome

Returned(fn, r) ==
    /\ out' = [fn |-> fn, ret |-> r.ret, err |-> r.err]
    /\ UNCHANGED <<root, n, key, parent, left, right, alloc, hung, last, k, d, clean,
                   objcalls, tw, ws, vs>>

ZeroOneKnapsack == Returned("zero_one_knapsack", zero_one_knapsack(tw, ws, vs))

Recursive01Knapsack == Returned("recursive_01_knapsack", recursive_01_knapsack(tw, ws, vs))

Memoized01Knapsack == Returned("memoized_01_knapsack", memoized_01_knapsack(tw, ws, vs))

NextKnapsack ==
    \/ ZeroOneKnapsack
    \/ Recursive01Knapsack
    \/ Memoized01Knapsack

SpecKnapsack == InitKnapsack /\ [][NextKnapsack]_vars

(***************************************************************************)
(* Properties                                                              *)
(***************************************************************************)

KeysOf(h, s) == [i \in 1..Len(s) |-> h.key[s[i]]]

NonDecreasing(s) == \A i \in 1..(Len(s) - 1) : s[i] <= s[i + 1]

HasDuplicate(h) == \E u, v \in Reachable(h) : u # v /\ h.key[u] = h.key[v]

ShapedWeak(h) == OrderedWeak(h) /\ ParentConsistent(h) /\ Acyclic(h)

\* C1: in every state reached by calls with keys, and so after any sequence
\* of tail_insert, root_insert and insert calls on an empty tree, duplicates
\* included, the in-order traversal visits every node of the tree once and
\* the keys it visits are in non-decreasing order.
C1_InOrderNonDecreasing ==
    LET s == in_order_traversal(Heap)
    IN  /\ Len(s) = Cardinality(InTree)
        /\ {s[i] : i \in 1..Len(s)} = InTree
        /\ NonDecreasing(KeysOf(Heap, s))

\* Three inserts only, the last one by insert, with a duplicate key.
C1_Witness ==
    /\ clean /\ k = 3 /\ d = 0
    /\ last.op = "insert"
    /\ HasDuplicate(Heap)
    /\ Len(in_order_traversal(Heap)) = 3

\* C2: after every public call, also one that ends in an error, size()
\* equals the number of nodes reachable from root.
C2_SizeIsReachable == SizeOK(Heap)

\* C3: delete(x) of a node of a tree that satisfies the invariants, whatever
\* the number of children of x, root or not, returns, x is no longer in the
\* tree, and the remaining tree satisfies ordering and parent-consistency.
C3_DeleteKeepsShape ==
    [][\A x \in InTree :
         (Delete(<<"node", x>>) /\ Valid(Heap))
         => /\ last'.err = "none"
            /\ x \notin Reachable(HeapNext)
            /\ Ordered(HeapNext)
            /\ ParentConsistent(HeapNext)]_vars

\* C4: delete(x) of a node of a valid tree, with 0, 1 or 2 children, returns x
\* with parent, left and right empty, decrements size by one and removes x
\* and no other node from the tree.
C4_DeleteRemovesTheNode ==
    [][\A x \in InTree :
         (Delete(<<"node", x>>) /\ Valid(Heap))
         => /\ last'.err = "none"
            /\ last'.ret = x
            /\ Detached(HeapNext, x)
            /\ n' = n - 1
            /\ Reachable(HeapNext) = InTree \ {x}]_vars

\* C5: search(K) returns a node with key K for as long as the tree holds one,
\* and once delete(K) was called on a tree with a single node of key K,
\* search(K) returns none.
C5_SearchRoundTrip ==
    /\ [](\A kk \in Keys : WithKey(Heap, kk) # {}
             => search(Heap, kk).ret \in WithKey(Heap, kk))
    /\ [][\A kk \in Keys :
            (Delete(<<"key", kk>>) /\ Cardinality(WithKey(Heap, kk)) = 1)
            => search(HeapNext, kk).ret = None]_vars

Absent(a) == IF isinstance(a) THEN a[2] \notin InTree ELSE WithKey(Heap, a[2]) = {}

\* C7: delete(x) on a well-formed tree, empty or not, with a key that no
\* node of the tree holds or with a node that is not in the tree (one that
\* was in it before clear() included), raises LookupError and changes no
\* link and not the size.
C7_DeleteAbsentRaises ==
    [][\A a \in KeyArgs \cup NodeArgs(Created) :
         (Delete(a) /\ Absent(a) /\ ShapedWeak(Heap) /\ SizeOK(Heap))
         => /\ last'.err = "LookupError"
            /\ UNCHANGED <<root, n, key, parent, left, right>>]_vars

C9_ParentLinksAndAcyclic == ParentConsistent(Heap) /\ Acyclic(Heap)

\* The step is root_insert of a key into a non-empty tree.
RootInsertStep == last'.op = "root_insert" /\ alloc' = alloc + 1 /\ root # None

LeftRotated(x) ==
    LET y == right[x]
        b == left[y]
        p == parent[x]
    IN  /\ parent'[x] = y /\ left'[y] = x
        /\ right'[x] = b /\ (b # None => parent'[b] = x)
        /\ parent'[y] = p
        /\ IF p = None THEN root' = y
           ELSE IF left[p] = x THEN left'[p] = y /\ root' = root
           ELSE right'[p] = y /\ root' = root

RightRotated(x) ==
    LET y == left[x]
        b == right[y]
        p == parent[x]
    IN  /\ parent'[x] = y /\ right'[y] = x
        /\ left'[x] = b /\ (b # None => parent'[b] = x)
        /\ parent'[y] = p
        /\ IF p = None THEN root' = y
           ELSE IF left[p] = x THEN left'[p] = y /\ root' = root
           ELSE right'[p] = y /\ root' = root

LeftThenRight(h, x) == right_rotate(left_rotate(h, x).h, left_rotate(h, x).ret).h

RightThenLeft(h, x) == left_rotate(right_rotate(h, x).h, right_rotate(h, x).ret).h

\* C12: in every tree reached by calls with keys or nodes of the tree, for
\* every node x with a right child, left_rotate(x) followed by right_rotate
\* of the node it returns gives back the root and the parent, left and right
\* links of every node; so does right_rotate followed by left_rotate for every
\* node with a left child.
C12_RotationInverse ==
    \A x \in InTree :
        /\ right[x] # None => LeftThenRight(Heap, x) = Heap
        /\ left[x] # None => RightThenLeft(Heap, x) = Heap

\* A valid tree of three nodes whose root was put there by a left rotation
\* and has a left child with a right subtree: right_rotate(root) and then
\* left_rotate move that subtree and the root pointer there and back.
C12_Witness ==
    /\ last.op = "left_rotate" /\ last.err = "none" /\ last.ret = root
    /\ Cardinality(InTree) = 3 /\ Valid(Heap)
    /\ left[root] # None /\ right[left[root]] # None
    /\ right_rotate(Heap, root).h # Heap
    /\ RightThenLeft(Heap, root) = Heap

\* The node a rotation called with a works on: the node object, or the node
\* search finds for the key (None when no node holds it).
Target(a) == IF isinstance(a) THEN a[2] ELSE search(Heap, a[2]).ret

\* C13: left_rotate of a node without right child, right_rotate of a node
\* without left child, and a rotation called with a key that no node holds
\* raise Exception and leave root, every link and n unchanged.
C13_RotationRefused ==
    [][\A a \in KeyArgs \cup NodeArgs(InTree) :
         /\ (LeftRotate(a) /\ (Target(a) = None \/ right[Target(a)] = None))
            => /\ last'.err = "Exception"
               /\ UNCHANGED <<root, n, key, parent, left, right>>
         /\ (RightRotate(a) /\ (Target(a) = None \/ left[Target(a)] = None))
            => /\ last'.err = "Exception"
               /\ UNCHANGED <<root, n, key, parent, left, right>>]_vars

\* left_rotate was refused on a node of the tree, found by key or passed
\* as object, that has a left child only.
C13_Witness ==
    /\ last.op = "left_rotate" /\ last.err = "Exception" /\ last.kids = 1
    /\ Cardinality(InTree) = 2

\* What remove_min and remove_max share, m being the node that has to go and
\* rest the in-order sequence that has to stay.
Removed(m, rest) ==
    /\ last'.err = "none" /\ last'.ret = m
    /\ Detached(HeapNext, m)
    /\ Reachable(HeapNext) = InTree \ {m}
    /\ n' = n - 1
    /\ in_order_traversal(HeapNext) = rest
    /\ ShapedWeak(HeapNext) /\ SizeOK(HeapNext)
    /\ Ordered(Heap) => Ordered(HeapNext)

\* C14: on a non-empty tree that satisfies the invariants remove_min returns
\* the first node of the in-order sequence, which holds the smallest key,
\* with its links cleared; the node is no longer in the tree, n is one less,
\* the other nodes stay in their order, the invariants hold and minimum()
\* returns the node that was second.  remove_max does the same at the other
\* end of the sequence.
C14_RemoveExtreme ==
    [][(ShapedWeak(Heap) /\ SizeOK(Heap) /\ root # None)
        => LET s == in_order_traversal(Heap)
               len == Len(s)
           IN  /\ RemoveMin
                  => /\ \A u \in InTree : key[s[1]] <= key[u]
                     /\ Removed(s[1], Tail(s))
                     /\ minimum(HeapNext).ret = IF len > 1 THEN s[2] ELSE None
               /\ RemoveMax
                  => /\ \A u \in InTree : key[s[len]] >= key[u]
                     /\ Removed(s[len], SubSeq(s, 1, len - 1))
                     /\ maximum(HeapNext).ret = IF len > 1 THEN s[len - 1] ELSE None]_vars

\* remove_min took a node with a right child out of a tree of three nodes.
C14_Witness ==
    /\ last.op = "remove_min" /\ last.err = "none" /\ last.kids = 1
    /\ Cardinality(InTree) = 2 /\ n = 2
    /\ Valid(Heap)
    /\ minimum(Heap).ret # root

\* The node before and the node after position i of a sequence of nodes.
Before(s, i) == IF i > 1 THEN s[i - 1] ELSE None

After(s, i) == IF i < Len(s) THEN s[i + 1] ELSE None

\* C15: for every node u of a tree that satisfies the invariants successor(u)
\* returns the node that follows u in the in-order sequence, none for the
\* last node, and predecessor(u) the node before u, none for the first.
C15_SuccessorIsNextInOrder ==
    Valid(Heap)
    => LET s == in_order_traversal(Heap)
       IN  \A i \in 1..Len(s) :
               /\ successor(Heap, s[i]) = Res(Heap, After(s, i), "none")
               /\ predecessor(Heap, s[i]) = Res(Heap, Before(s, i), "none")

\* The keys rank is asked about: those of the model, one below and one above.
Queries == 0..(MaxKey + 1)

Smaller(h, q) == {u \in Reachable(h) : h.key[u] < q}

\* C16: for every tree reached by calls with keys and every query key, held
\* by a node or not, rank returns the number of nodes with a key strictly
\* less than the query; so rank(a) <= rank(b) whenever a < b.
C16_RankCountsSmaller ==
    /\ \A q \in Queries : rank(Heap, q) = Res(Heap, Cardinality(Smaller(Heap, q)), "none")
    /\ \A a, b \in Queries : a < b => rank(Heap, a).ret <= rank(Heap, b).ret

\* Three nodes, two of them with the same key, below a third key of the tree
\* on both sides of the root.
C16_Witness ==
    /\ Cardinality(InTree) = 3 /\ HasDuplicate(Heap)
    /\ left[root] # None /\ right[root] # None
    /\ \E q \in Keys : WithKey(Heap, q) # {} /\ rank(Heap, q).ret = 2

\* tail_insert was called with the keys of the scenario, in their order.
ScenarioBuilt == alloc = Len(Scenario) /\ \A i \in ScenarioIds : key[i] = Scenario[i]

\* C17, as claimed: after tail_insert of 5, 3, 8, 1, 4, 7, 9 into an empty
\* tree rank(7) returns 5.
C17_RankOfSevenIsFive == ScenarioBuilt => rank(Heap, 7) = Res(Heap, 5, "none")

\* C17, amended: after tail_insert of 5, 3, 8, 1, 4, 7, 9 into an empty tree
\* rank(7) returns 4, the number of the keys 1, 3, 4, 5 below 7.
C17_RankOfSevenIsFour == ScenarioBuilt => rank(Heap, 7) = Res(Heap, 4, "none")

\* The tree of the scenario: 5 at the root, 7 the left child of 8.
C17_Witness ==
    /\ ScenarioBuilt /\ last.op = "tail_insert"
    /\ KeysOf(Heap, in_order_traversal(Heap)) = <<1, 3, 4, 5, 7, 8, 9>>
    /\ key[root] = 5 /\ key[left[right[root]]] = 7
    /\ Cardinality(Smaller(Heap, 7)) = 4

\* The number of edges from the root down to u, counted along parent links.
RECURSIVE Depth(_, _)
Depth(h, u) == IF h.parent[u] = None THEN 0 ELSE 1 + Depth(h, h.parent[u])

\* The number of edges of the longest path from the root to a leaf.
LongestPath(h) ==
    IF h.root = None THEN 0
    ELSE CHOOSE m \in {Depth(h, u) : u \in Reachable(h)} :
             \A u \in Reachable(h) : Depth(h, u) <= m

\* C18: height() returns the number of edges of the longest path from the
\* root to a leaf: 0 for the empty tree, 0 for a tree of one node, and 2 after
\* tail_insert of 5, 3, 8, 1, 4, 7, 9 into an empty tree.
C18_HeightIsLongestPath ==
    /\ height(Heap) = Res(Heap, LongestPath(Heap), "none")
    /\ root = None => height(Heap).ret = 0
    /\ Cardinality(InTree) = 1 => height(Heap).ret = 0
    /\ ScenarioBuilt => height(Heap).ret = 2

\* The tree of the scenario, three levels of nodes, each node of the middle
\* level with two children.
C18_Witness ==
    /\ ScenarioBuilt /\ last.op = "tail_insert"
    /\ LongestPath(Heap) = 2 /\ height(Heap).ret = 2
    /\ \A u \in Children(Heap, root) : Cardinality(Children(Heap, u)) = 2

\* C19: in every tree reached by inserts, rotations and deletes called with
\* keys or nodes of the tree, duplicates included, and for every key, search,
\* search_i and search_r return the same: a node with the key that has every
\* other node with the key below it, which is the first one on the descent
\* from the root, and None exactly when no node of the tree holds the key;
\* contains is true exactly when that result is a node.
C19_SearchesAgree ==
    \A q \in Queries :
        LET f == search_r(Heap, q)
        IN  /\ search(Heap, q) = f
            /\ search_i(Heap, q) = f
            /\ f.err = "none"
            /\ f.ret = None <=> WithKey(Heap, q) = {}
            /\ f.ret # None => /\ key[f.ret] = q
                               /\ WithKey(Heap, q) \subseteq Subtree(Heap, f.ret)
            /\ contains(Heap, q) <=> f.ret # None

\* Two nodes with the same key under a root with a larger key: the searches
\* go down to the left and stop at the upper one.
C19_Witness ==
    /\ Cardinality(InTree) = 3
    /\ \E q \in Keys :
         /\ Cardinality(WithKey(Heap, q)) = 2
         /\ q < key[root]
         /\ search(Heap, q).ret = left[root]
         /\ search_r(Heap, q).ret = left[root]

\* C20: insert_many(ls) on a non-empty tree that satisfies the invariants
\* returns with every element of ls attached below the nodes that were there:
\* the root is the same node as before, the old nodes keep their parents and
\* the tree holds the old nodes and one new node for each element.
C20_InsertManyKeepsRoot ==
    [][\A ls \in ManyArgs :
         (InsertMany(ls) /\ root # None /\ Valid(Heap))
         => /\ last'.err = "none"
            /\ root' = root
            /\ \A u \in InTree : parent'[u] = parent[u]
            /\ Reachable(HeapNext) = InTree \cup ((alloc + 1)..(alloc + Len(ls)))]_vars

\* C21: every public call returns or raises on every tree that public calls
\* can build, insertions of node objects included: no insertion, deletion,
\* rotation or removal is left running for good, and search ends for every key.
C21_EveryCallTerminates ==
    /\ ~hung
    /\ \A q \in Queries : search(Heap, q).err # "hang"

\* The sum of f over the set S of positions.
RECURSIVE Sum(_, _)
Sum(f, S) == IF S = {} THEN 0 ELSE LET i == CHOOSE j \in S : TRUE
                                  IN  f[i] + Sum(f, S \ {i})

\* The subsets of the items that fit in the knapsack.
Fitting == {S \in SUBSET (1..Len(ws)) : Sum(ws, S) <= tw}

\* C22: zero_one_knapsack raises when the two lists differ in length and
\* otherwise returns the largest total value of a subset of the items whose
\* total weight is at most total_weight, items of weight zero included.
C22_KnapsackIsOptimal ==
    out.fn = "zero_one_knapsack"
    => IF Len(ws) # Len(vs) THEN out.err # "none"
       ELSE /\ out.err = "none"
            /\ \E S \in Fitting : out.ret = Sum(vs, S)
            /\ \A S \in Fitting : out.ret >= Sum(vs, S)

\* C23: delete of a node u with two children, in a tree that satisfies the
\* invariants, returns with the in-order successor s of u, the minimum of the
\* right subtree of u, in the place of u: s hangs where u hung under the
\* former parent of u, or is the root, and has the former left child of u as
\* its left child; no node changes its key.
C23_SuccessorTakesThePlace ==
    [][\A a \in KeyArgs \cup NodeArgs(InTree) :
         LET u == IF isinstance(a) THEN a[2] ELSE search_r(Heap, a[2]).ret
             s == _minimum_r(Heap, right[u], Cells(Heap)).ret
         IN  (Delete(a) /\ Valid(Heap) /\ u # None /\ has_two_children(Heap, u))
             => /\ last'.err = "none"
                /\ key' = key
                /\ parent'[s] = parent[u]
                /\ left'[s] = left[u]
                /\ IF parent[u] = None THEN root' = s
                   ELSE IF left[parent[u]] = u THEN left'[parent[u]] = s
                   ELSE right'[parent[u]] = s]_vars

\* C24: tail_insert of a key into a non-empty tree returns with the new node
\* x a leaf in a slot of a node p of the tree that was empty, the left slot
\* when the key is smaller than the key of p and the right slot otherwise; on
\* the way from the root to x the key is smaller than every node x is on the
\* left of and not smaller than every node x is on the right of.  The root,
\* the keys and every other link are as before, and n is one more.
C24_TailInsertAddsALeaf ==
    [][\A a \in KeyArgs :
         (TailInsert(a) /\ root # None)
         => LET x == alloc + 1
                p == parent'[x]
            IN  /\ last'.err = "none"
                /\ n' = n + 1
                /\ root' = root
                /\ key' = [key EXCEPT ![x] = a[2]]
                /\ p \in InTree
                /\ parent' = [parent EXCEPT ![x] = p]
                /\ left'[x] = None /\ right'[x] = None
                /\ IF a[2] < key[p]
                   THEN left[p] = None /\ left' = [left EXCEPT ![p] = x] /\ right' = right
                   ELSE right[p] = None /\ right' = [right EXCEPT ![p] = x] /\ left' = left
                /\ Reachable(HeapNext) = InTree \cup {x}
                /\ \A q \in InTree :
                     /\ x \in Subtree(HeapNext, left'[q]) => a[2] < key[q]
                     /\ x \in Subtree(HeapNext, right'[q]) => a[2] >= key[q]]_vars

\* tail_insert attached the third node two levels below the root, on the right
\* of a node that holds the same key and that is on the left of the root.
C24_Witness ==
    /\ last.op = "tail_insert" /\ last.err = "none"
    /\ alloc = 3 /\ n = 3 /\ Cardinality(InTree) = 3
    /\ parent[3] # None /\ parent[3] = left[root]
    /\ right[parent[3]] = 3
    /\ key[3] = key[parent[3]]

\* C25: tail_insert, root_insert and insert called on a tree without root,
\* with a key or with a node object whatever links it carries, all return
\* with the same state: the node is the root, it has no parent and no
\* children, and n is 1.
C25_InsertIntoEmptyTree ==
    [][\A a \in KeyArgs \cup NodeArgs(Created) :
         (root = None /\ (TailInsert(a) \/ RootInsert(a) \/ Insert(a)))
         => /\ last'.err = "none"
            /\ root' = Inserted(a)
            /\ key'[root'] = IF isinstance(a) THEN key[a[2]] ELSE a[2]
            /\ Detached(HeapNext, root')
            /\ n' = 1]_vars

\* The states in which insert(a) can end: what root_insert gives and what
\* tail_insert gives.
AsRootInsert(a) == root_insert(WithNode(a), Inserted(a)).h

AsTailInsert(a) == tail_insert(WithNode(a), Inserted(a)).h

\* C26: insert(x) on a tree that holds at most two nodes returns with the
\* state root_insert(x) gives, x being the root; on a tree that holds three
\* nodes or more it ends in the state root_insert(x) gives or in the state
\* tail_insert(x) gives, and each of the two is the outcome of some draw.
C26_InsertIsRootOrTail ==
    [][\A a \in KeyArgs \cup NodeArgs(Created) :
         Insert(a)
         => IF Cardinality(InTree) <= 2
            THEN /\ last'.err = "none"
                 /\ HeapNext = AsRootInsert(a)
                 /\ root' = Inserted(a)
            ELSE /\ HeapNext \in {AsRootInsert(a), AsTailInsert(a)}
                 /\ \E r1, r2 \in randint(Heap) :
                      /\ insert(WithNode(a), Inserted(a), r1).h = AsRootInsert(a)
                      /\ insert(WithNode(a), Inserted(a), r2).h = AsTailInsert(a)]_vars

\* C27: a tree without root has n = 0, and remove_min and remove_max called
\* on it return None, raise nothing and leave it without root and with n = 0.
C27_RemoveOnEmptyTree ==
    [][(root = None /\ (RemoveMin \/ RemoveMax))
        => /\ n = 0
           /\ last'.err = "none" /\ last'.ret = None
           /\ root' = None /\ n' = 0]_vars

\* C28: for every node u of the tree the lookup of the uncle raises nothing
\* and returns None when u has no grandparent and the sibling of the parent
\* of u otherwise, None when the parent has no sibling; the sibling of u is
\* the node in the other slot of its parent.
C28_UncleIsSiblingOfParent ==
    \A u \in InTree :
        /\ uncle(Heap, u).err = "none"
        /\ uncle(Heap, u).ret = IF grandparent(Heap, u) = None THEN None
                                ELSE sibling(Heap, parent[u])
        /\ parent[u] # None
           => sibling(Heap, u) = IF left[parent[u]] = u THEN right[parent[u]]
                                 ELSE left[parent[u]]

\* C29: for a capacity and two lists of the same length, empty lists
\* included, recursive_01_knapsack, memoized_01_knapsack and zero_one_knapsack
\* return the same value and raise nothing, and no call of the memoized
\* function for no items uses a row of the table, which belong to the calls
\* for one item or more.
C29_KnapsacksAgree ==
    (Len(ws) = Len(vs) /\ out.fn # "none")
    => /\ out.err = "none"
       /\ out.ret = recursive_01_knapsack(tw, ws, vs).ret
       /\ ~memoized_01_knapsack(tw, ws, vs).wrapped

====
